---- MODULE Spec2Model ----
(***************************************************************************)
(* Resource indexing pipeline of CityForge: indexer/indexer.py             *)
(* (ResourceIndexer, main) and backend/app/models/indexing_job.py          *)
(* (IndexingJob).                                                          *)
(*                                                                         *)
(* Spec       : the batch and single-resource runs that use the Job Store, *)
(*              one resource and one page at a time, over the Job Store    *)
(*              and the search index.                                      *)
(* SpecAll    : Spec and the runs started with --no-tracking.              *)
(* SpecUntracked : the runs started with --no-tracking alone, from the     *)
(*              Job Stores that tracked runs leave.                        *)
(* SpecScrape : ResourceIndexer.scrape_url applied to every robots answer  *)
(*              and every sequence of fetch outcomes.                      *)
(* SpecStore  : IndexingJob.get_or_create and the commit that follows it,   *)
(*              called by runs that execute at the same time.              *)
(* SpecBlacklist : backend/app/models/token_blacklist.py (TokenBlacklist): *)
(*              add_token_to_blacklist, cleanup_expired_tokens and the     *)
(*              clock.                                                     *)
(* SpecRobots : ResourceIndexer.is_url_allowed and get_robots_parser called *)
(*              again and again by one process, over hosts whose           *)
(*              /robots.txt answers change.                                *)
(* SpecParse  : ResourceIndexer.parse_sitemap applied to every sitemap of a *)
(*              bounded family of sites whose sitemap indexes name one or  *)
(*              two sitemaps, themselves included.                         *)
(* SpecDiscover : ResourceIndexer.get_all_site_urls applied to every site  *)
(*              of a bounded family: answers of the sitemap probes, of     *)
(*              robots.txt and of the sitemap fetches.                     *)
(***************************************************************************)
EXTENDS Integers, Sequences, FiniteSets, TLC

VARIABLES
    jobs,     \* committed rows of indexing_jobs: resource_id -> row
    pending,  \* resource ids of new IndexingJob objects added to the session, not yet committed
    docs,     \* ids of the documents in the search index: <<resource_id, page_index>>
    pc,       \* position of the running process ("idle": no process)
    run,      \* command line and batch loop of the process
    loc,      \* locals of index_resource for the resource being processed
    hist,     \* history of the run: which resources it skipped and processed
    sc,       \* one call of scrape_url (SpecScrape)
    dv,       \* one call of get_all_site_urls (SpecDiscover)
    st,       \* indexing_jobs as a table of rows, and the sessions of concurrent runs (SpecStore)
    tb,       \* token_blacklist, the clock and the last call on it (SpecBlacklist)
    rb        \* robots_cache of one process and its last is_url_allowed call (SpecRobots)

vars == <<jobs, pending, docs, pc, run, loc, hist, sc, dv, st, tb, rb>>

-----------------------------------------------------------------------------
(* Bounds of the model *)

NumCards == 3
MaxPages == 2
MaxDepth == 3
NumRuns == 2
NumTokens == 2
MaxTime == 2
NumHosts == 2
MaxCalls == 2

(* Program constants *)

MAX_RETRIES == 3
RETRY_BASE_DELAY == 2
MaxRetryCount == 3
IdOffset == 10000

-----------------------------------------------------------------------------
(* Catalog: GET /api/cards and load_business_cards *)

Cards == 1..NumCards

\* the website_url a catalog response carries for a card without website:
\* a blank string, no such key, or JSON null (Card.to_dict of a NULL column)
NoWebsite == {"", "missing", "null"}

\* the cards without website: cards 1, 4, 7, ...
NoWebsiteCards == {c \in Cards : c % 3 = 1}

\* the catalog responses: card -> its website_url
Catalogs ==
    {cat \in [Cards -> {"site"} \cup NoWebsite] :
        \A c \in Cards : c \in NoWebsiteCards <=> cat[c] \in NoWebsite}

\* card.get('website_url', '').strip(); defined for a value that is not null
website_url(cat, c) == IF cat[c] = "missing" THEN "" ELSE cat[c]

\* None.strip() raises AttributeError
StripRaises(cat, c) == cat[c] = "null"

ResourceId(c) == IdOffset + c

\* the loop of load_business_cards over the first n cards: the resources of
\* the cards that have a website, in catalog order
FilterCards_NoFilter(cat, n) ==
    [k \in 1..n |-> ResourceId(k)]

RECURSIVE FilterCards(_, _)
FilterCards(cat, n) ==
    IF n = 0 THEN <<>>
    ELSE IF website_url(cat, n) # ""
         THEN Append(FilterCards(cat, n - 1), ResourceId(n))
         ELSE FilterCards(cat, n - 1)

\* load_business_cards: the empty list when the request fails or when
\* anything raises inside the try, the loop over the cards included
load_business_cards(apiOk, cat) ==
    IF ~apiOk \/ (\E c \in Cards : StripRaises(cat, c))
    THEN <<>>
    ELSE FilterCards(cat, NumCards)

\* the resources the response names with a website
Eligible(apiOk, cat) ==
    IF apiOk THEN {ResourceId(c) : c \in {k \in Cards : cat[k] = "site"}} ELSE {}

\* what load_business_cards can hand to a run, with the resources the
\* response named with a website
LoadResults ==
    {[list |-> load_business_cards(apiOk, cat), eligible |-> Eligible(apiOk, cat)] :
        apiOk \in BOOLEAN, cat \in Catalogs}

AllResourceIds == {ResourceId(c) : c \in Cards}

\* the sites: cards 2, 5, 8, ... have a site with discoverable sitemaps, the
\* other sites have none
HasSitemap(rid) == (rid - IdOffset) % 3 = 2

-----------------------------------------------------------------------------
(* IndexingJob *)

NULL == "NULL"
ReturnedFalse == "Indexing returned False"

\* a new IndexingJob(resource_id=...) object: status is None until the row
\* is inserted; the counters are shown with the column defaults
NewJob ==
    [status |-> "None", pages_indexed |-> 0, total_pages |-> 0,
     last_error |-> NULL, retry_count |-> 0]

\* the column defaults applied when a new object is inserted
Inserted(job) ==
    IF job.status = "None" THEN [job EXCEPT !.status = "pending"] ELSE job

get_or_create(rid) == IF rid \in DOMAIN jobs THEN jobs[rid] ELSE NewJob

\* db.session.commit(): inserts the session's new objects, writes job for rid
Commit(rid, job) ==
    [r \in DOMAIN jobs \cup pending \cup {rid} |->
        IF r = rid THEN Inserted(job)
        ELSE IF r \in DOMAIN jobs THEN jobs[r]
        ELSE Inserted(NewJob)]

\* IndexingJob.reset_all_jobs: one UPDATE over all rows
reset_all_jobs_DropsRows == <<>>

reset_all_jobs_KeepsRetry ==
    [r \in DOMAIN jobs |->
        [status |-> "pending", pages_indexed |-> 0, total_pages |-> 0,
         last_error |-> NULL, retry_count |-> jobs[r].retry_count]]

reset_all_jobs ==
    [r \in DOMAIN jobs |->
        [status |-> "pending", pages_indexed |-> 0, total_pages |-> 0,
         last_error |-> NULL, retry_count |-> 0]]

-----------------------------------------------------------------------------
(* create_index_if_not_exists *)

\* what the search engine answers: the index exists, it is created, its
\* creation fails, or the engine cannot be reached at all
IndexOutcomes == {"exists", "created", "create_failed", "unreachable"}

\* client.indices.exists is called outside the try, client.indices.create
\* inside it
create_index_if_not_exists(search) ==
    IF search = "unreachable" THEN "raised" ELSE "returned"

IndexResults == {create_index_if_not_exists(search) : search \in IndexOutcomes}

-----------------------------------------------------------------------------
(* scrape_url *)

FetchOutcomes == {"ok", "network_error", "timeout", "http_error"}
OutcomeSeqs == [1..MAX_RETRIES -> FetchOutcomes]

None == [kind |-> "None"]
EmptyResult == [kind |-> "dict", content |-> "", page_title |-> "", page_description |-> ""]
PageResult == [kind |-> "dict", content |-> "text", page_title |-> "title", page_description |-> "desc"]

Pow_Linear(b, e) == b * e

RECURSIVE Pow(_, _)
Pow(b, e) == IF e = 0 THEN 1 ELSE b * Pow(b, e - 1)

\* the retry loop of scrape_url from attempt on; slept: the backoff waits so far
RECURSIVE scrape_attempts(_, _, _, _)
scrape_attempts(outs, max_retries, attempt, slept) ==
    IF attempt >= max_retries
    THEN [result |-> EmptyResult, fetches |-> attempt, slept |-> slept, raised |-> FALSE]
    ELSE IF outs[attempt + 1] = "ok"
    THEN [result |-> PageResult, fetches |-> attempt + 1, slept |-> slept, raised |-> FALSE]
    ELSE IF attempt < max_retries - 1
    THEN scrape_attempts(outs, max_retries, attempt + 1,
                         Append(slept, Pow(RETRY_BASE_DELAY, attempt)))
    ELSE [result |-> EmptyResult, fetches |-> attempt + 1, slept |-> slept, raised |-> FALSE]

scrape_url(allowed, outs) ==
    IF ~allowed
    THEN [result |-> None, fetches |-> 0, slept |-> <<>>, raised |-> FALSE]
    ELSE scrape_attempts(outs, MAX_RETRIES, 0, <<>>)

ScrapeResults == {scrape_url(a, o).result : a \in BOOLEAN, o \in OutcomeSeqs}

-----------------------------------------------------------------------------
(* index_single_page *)

\* doc_id = f"{resource['id']}-{page_index}"
doc_id_OneBased(rid, page_index) == <<rid, page_index + 1>>

doc_id(rid, page_index) == <<rid, page_index>>

\* TRUE iff the document is written: reading scraped_data['page_title'] of
\* None raises TypeError, a failed client.index raises; both are caught
index_single_page_AlwaysTrue(scraped, writeOk) == TRUE

index_single_page_IgnoresWrite(scraped, writeOk) == scraped.kind = "dict"

index_single_page(scraped, writeOk) == scraped.kind = "dict" /\ writeOk

-----------------------------------------------------------------------------
(* discover_sitemap_urls, parse_sitemap, get_all_site_urls *)

\* the homepage is page 0; the site has MaxPages further pages
base_url == 0
PageUrls == 0..MaxPages

common_sitemap_paths ==
    <<"/sitemap.xml", "/sitemap_index.xml", "/sitemap.txt", "/sitemaps.xml">>
CommonPaths == {common_sitemap_paths[k] : k \in 1..Len(common_sitemap_paths)}

\* a sitemap that only robots.txt can name
DeclaredPath == "/pages-sitemap.xml"
SitemapUrls == CommonPaths \cup {DeclaredPath}

\* what GET <sitemap> answers: a failed request, a body that is not XML, a
\* list of page URLs (<url><loc>, or the lines of a text sitemap), or an index
\* naming further sitemaps (<sitemap><loc>)
GetError == [kind |-> "error", subs |-> <<>>, locs |-> <<>>]
Malformed == [kind |-> "malformed", subs |-> <<>>, locs |-> <<>>]
UrlSeqs == UNION {[1..n -> PageUrls] : n \in 0..2}
Contents ==
    {GetError, Malformed}
    \cup {[kind |-> "urlset", subs |-> <<>>, locs |-> s] : s \in UrlSeqs}
    \cup {[kind |-> "index", subs |-> <<u>>, locs |-> <<>>] : u \in SitemapUrls}

HeadOutcomes == {"200", "404", "error"}
Heads ==
    {h \in [CommonPaths -> HeadOutcomes] :
        Cardinality({p \in CommonPaths : h[p] # "404"}) <= 1}

RobotsOutcomes ==
    {[kind |-> "error", sitemaps |-> <<>>], [kind |-> "404", sitemaps |-> <<>>]}
    \cup {[kind |-> "200", sitemaps |-> s] :
            s \in {<<>>, <<DeclaredPath>>, <<"/sitemap.xml">>,
                   <<DeclaredPath, "/sitemap.xml">>}}

\* the sites: at most one conventional path answers the probe with something
\* else than 404; a conventional path that does not answer 200 fails on GET
Sites ==
    {[head |-> h, robots |-> r,
      body |-> [u \in SitemapUrls |->
                  IF u = DeclaredPath THEN c2
                  ELSE IF h[u] = "200" THEN c1 ELSE GetError],
      disallowed |-> d] :
        h \in Heads, r \in RobotsOutcomes, c1 \in Contents, c2 \in Contents,
        d \in {{}} \cup {{u} : u \in PageUrls}}

Range(s) == {s[k] : k \in 1..Len(s)}

is_url_allowed_AllowsAll(site, url) == TRUE

is_url_allowed(site, url) == url \notin site.disallowed

\* sitemap_urls.append(sitemap_url) if sitemap_url not in sitemap_urls
RECURSIVE AppendNew(_, _)
AppendNew(list, more) ==
    IF more = <<>> THEN list
    ELSE AppendNew(IF Head(more) \in Range(list) THEN list ELSE Append(list, Head(more)),
                   Tail(more))

\* the conventional paths whose HEAD answers 200, then the Sitemap: lines of
\* robots.txt; a failed probe or a failed robots.txt request adds nothing
discover_sitemap_urls(site) ==
    LET found == SelectSeq(common_sitemap_paths, LAMBDA p : site.head[p] = "200")
        declared == IF site.robots.kind = "200" THEN site.robots.sitemaps ELSE <<>>
    IN AppendNew(found, declared)

IsText(sitemap_url) == sitemap_url = "/sitemap.txt"

\* the URLs of one sitemap; depth: the frames left before the interpreter's
\* recursion limit, a RecursionError in the nested call is caught by the
\* caller's except Exception, which returns the URLs it has so far
RECURSIVE parse_sitemap(_, _, _)
RECURSIVE ParseSubs(_, _, _)
parse_sitemap(site, sitemap_url, depth) ==
    LET body == site.body[sitemap_url]
        allowed == SelectSeq(body.locs, LAMBDA u : is_url_allowed(site, u))
    IN
    IF body.kind = "error" THEN <<>>
    ELSE IF IsText(sitemap_url) THEN allowed
    ELSE IF body.kind = "malformed" THEN <<>>
    ELSE IF body.subs # <<>> /\ depth <= 1 THEN <<>>
    ELSE ParseSubs(site, body.subs, depth - 1) \o allowed

ParseSubs(site, subs, depth) ==
    IF subs = <<>> THEN <<>>
    ELSE parse_sitemap(site, Head(subs), depth) \o ParseSubs(site, Tail(subs), depth)

\* for sitemap_url in sitemap_urls: all_urls.extend(parse_sitemap(sitemap_url))
RECURSIVE ParseAll(_, _)
ParseAll(site, sitemap_urls) ==
    IF sitemap_urls = <<>> THEN <<>>
    ELSE parse_sitemap(site, Head(sitemap_urls), MaxDepth)
         \o ParseAll(site, Tail(sitemap_urls))

\* list(set(all_urls)): the distinct URLs in any order
Orders(S) == {s \in [1..Cardinality(S) -> S] : Range(s) = S}

Take(s, n) == SubSeq(s, 1, IF n < Len(s) THEN n ELSE Len(s))

\* the lists get_all_site_urls can return
get_all_site_urls_NoLimit(site, max_pages) ==
    LET sitemap_urls == discover_sitemap_urls(site) IN
    IF sitemap_urls # <<>>
    THEN Orders(Range(ParseAll(site, sitemap_urls)))
    ELSE {<<base_url>>}

get_all_site_urls_NoFallback(site, max_pages) ==
    LET sitemap_urls == discover_sitemap_urls(site) IN
    {Take(o, max_pages) : o \in Orders(Range(ParseAll(site, sitemap_urls)))}

get_all_site_urls(site, max_pages) ==
    LET sitemap_urls == discover_sitemap_urls(site) IN
    IF sitemap_urls # <<>>
    THEN {Take(o, max_pages) : o \in Orders(Range(ParseAll(site, sitemap_urls)))}
    ELSE {<<base_url>>}

\* the possible lengths of all_urls: what the sitemaps yield, deduplicated and
\* cut to max_pages, or the homepage alone when no sitemap is found
SiteUrlCounts(rid, max_pages) == IF HasSitemap(rid) THEN 0..max_pages ELSE {1}

-----------------------------------------------------------------------------
(* index_resource *)

NoExc == "none"
DiscoveryExc == "Invalid IPv6 URL"

\* i, success_count: the page loop; exc: the exception raised inside the try.
\* written, fetched_ok count the pages of this resource whose document was
\* written, and those among them whose fetch succeeded; write_failed counts
\* the pages whose index write was rejected
IdleLoc ==
    [total |-> 0, i |-> 0, success_count |-> 0, exc |-> NoExc,
     ret |-> "unset", written |-> 0, fetched_ok |-> 0, write_failed |-> 0]

\* job.total_pages = len(all_urls); job.pages_indexed = 0
SetTotal_KeepsProgress(job, n) == [job EXCEPT !.total_pages = n]

SetTotal(job, n) == [job EXCEPT !.total_pages = n, !.pages_indexed = 0]

\* job.pages_indexed = success_count
SetProgress(job, success_count) == [job EXCEPT !.pages_indexed = success_count]

\* what index_resource hands to its caller: success_count > 0 after the
\* loop, or False from its own except clause; nothing is raised
index_resource_NonNegative(l) ==
    [ret |-> IF l.exc # NoExc THEN FALSE ELSE l.success_count >= 0, raised |-> NoExc]

index_resource(l) ==
    [ret |-> IF l.exc # NoExc THEN FALSE ELSE l.success_count > 0, raised |-> NoExc]

-----------------------------------------------------------------------------
(* index_all_resources and main *)

Modes == {"full", "resume", "retry"}

\* eligible: the resources that the catalog response of the run names with
\* a website; named: the ID given with --reindex-resource
IdleRun ==
    [kind |-> "none", mode |-> "full", tracking |-> TRUE, list |-> <<>>, idx |-> 0, cur |-> 0,
     eligible |-> {}, named |-> 0]

\* skipped, processed: the resources the run has skipped and taken so far;
\* prev_retry: retry_count of the current job before the run took it;
\* prev_status: its status before the run took it, kept until discovery;
\* reset_changed: the --reset of this run has changed some row;
\* no_failed: the run is a retry run that found no failed job when its loop
\* began
NoStatus == "-"
IdleHist ==
    [skipped |-> {}, processed |-> {}, prev_retry |-> 0, prev_status |-> NoStatus,
     reset_changed |-> FALSE, no_failed |-> FALSE]

\* the mode filter of index_all_resources
ShouldSkip_OffByOne(mode, job) ==
    \/ mode = "resume" /\ job.status = "completed"
    \/ mode = "retry" /\ job.status # "failed"
    \/ mode = "retry" /\ job.retry_count > MaxRetryCount

ShouldSkip_NoCap(mode, job) ==
    \/ mode = "resume" /\ job.status = "completed"
    \/ mode = "retry" /\ job.status # "failed"

ShouldSkip_RetryAnyStatus(mode, job) ==
    \/ mode = "resume" /\ job.status = "completed"
    \/ mode = "retry" /\ job.retry_count >= MaxRetryCount

ShouldSkip_RetryTakesInProgress(mode, job) ==
    \/ mode = "resume" /\ job.status = "completed"
    \/ mode = "retry" /\ job.status \notin {"failed", "in_progress"}
    \/ mode = "retry" /\ job.retry_count >= MaxRetryCount

ShouldSkip_NoResume(mode, job) ==
    \/ mode = "retry" /\ job.status # "failed"
    \/ mode = "retry" /\ job.retry_count >= MaxRetryCount

ShouldSkip_RetryTakesNew(mode, job) ==
    \/ mode = "resume" /\ job.status = "completed"
    \/ mode = "retry" /\ job.status \notin {"failed", "None"}
    \/ mode = "retry" /\ job.retry_count >= MaxRetryCount

ShouldSkip(mode, job) ==
    \/ mode = "resume" /\ job.status = "completed"
    \/ mode = "retry" /\ job.status # "failed"
    \/ mode = "retry" /\ job.retry_count >= MaxRetryCount

\* job.status = 'in_progress'; retry_count += 1 in retry mode
MarkStarted_ZeroesRetry(mode, job) ==
    [job EXCEPT !.status = "in_progress",
                !.retry_count = IF mode = "retry" THEN @ + 1 ELSE 0]

MarkStarted_AlwaysIncrements(mode, job) ==
    [job EXCEPT !.status = "in_progress", !.retry_count = @ + 1]

MarkStarted(mode, job) ==
    [job EXCEPT !.status = "in_progress",
                !.retry_count = IF mode = "retry" THEN @ + 1 ELSE @]

\* single-resource re-index: job.status = 'in_progress'; job.retry_count = 0
MarkReindex_KeepsRetry(job) == [job EXCEPT !.status = "in_progress"]

MarkReindex(job) == [job EXCEPT !.status = "in_progress", !.retry_count = 0]

MarkCompleted_KeepsStatus(job) == [job EXCEPT !.last_error = NULL]

MarkCompleted(job) == [job EXCEPT !.status = "completed", !.last_error = NULL]

MarkFailed_KeepsStatus(job, msg) == [job EXCEPT !.last_error = msg]

MarkFailed(job, msg) == [job EXCEPT !.status = "failed", !.last_error = msg]

IdleSc ==
    [allowed |-> TRUE, outs |-> <<>>, called |-> FALSE,
     result |-> None, fetches |-> 0, slept |-> <<>>, raised |-> FALSE]

NoSite ==
    [head |-> [p \in CommonPaths |-> "404"],
     robots |-> [kind |-> "404", sitemaps |-> <<>>],
     body |-> [u \in SitemapUrls |-> GetError],
     disallowed |-> {}]

IdleDv ==
    [site |-> NoSite, max_pages |-> 1, called |-> FALSE, result |-> <<>>, sitemap |-> ""]

\* the runs that execute at the same time
Runs == 1..NumRuns

\* rows: how many rows of indexing_jobs carry each resource_id; of each run:
\* at: its position in get_or_create, rid: the resource_id of the call
IdleSt ==
    [rows |-> [r \in AllResourceIds |-> 0],
     at |-> [p \in Runs |-> "out"],
     rid |-> [p \in Runs |-> 0]]

\* the JWT IDs and the times of the model
Jtis == 1..NumTokens
Times == 0..MaxTime

\* rows: token_blacklist as jti -> expires_at of its row; now: the clock;
\* added: the jtis ever given to add_token_to_blacklist; op, ret: the last
\* call and what cleanup_expired_tokens returned
NoRows == <<>>
IdleTb == [rows |-> NoRows, now |-> 0, added |-> {}, op |-> "none", ret |-> 0]

\* the scheme+host values and the paths of the URLs given to is_url_allowed
Hosts == 1..NumHosts
Paths == {"/", "/private"}

\* no RobotFileParser
NoParser == "none"

\* cache: robots_cache, host -> the answer its cached parser was read from;
\* calls: the is_url_allowed calls made so far for each host; last: the last
\* call: its URL, how many requests for /robots.txt it made, the answer its
\* result rests on, and what it returned
IdleRb ==
    [cache |-> [h \in Hosts |-> NoParser],
     calls |-> [h \in Hosts |-> 0],
     last |-> [host |-> 0, path |-> "/", fetches |-> 0, basis |-> NoParser, result |-> TRUE]]

Init ==
    /\ jobs = <<>>
    /\ pending = {}
    /\ docs = {}
    /\ pc = "idle"
    /\ run = IdleRun
    /\ loc = IdleLoc
    /\ hist = IdleHist
    /\ sc = IdleSc
    /\ dv = IdleDv
    /\ st = IdleSt
    /\ tb = IdleTb
    /\ rb = IdleRb

\* main up to the --reindex-resource test: the indexer is built with or
\* without tracking, and --reset resets the jobs of a tracking run
Main_ResetsUntracked(tracking) ==
    /\ pc = "idle"
    /\ \E reset \in BOOLEAN :
         /\ jobs' = IF reset THEN reset_all_jobs ELSE jobs
         /\ hist' = [hist EXCEPT !.reset_changed = reset /\ reset_all_jobs # jobs]
    /\ run' = [IdleRun EXCEPT !.tracking = tracking]
    /\ pc' = "started"
    /\ UNCHANGED <<pending, docs, loc, sc, dv, st, tb, rb>>

Main(tracking) ==
    /\ pc = "idle"
    /\ \E reset \in BOOLEAN :
         /\ jobs' = IF reset /\ tracking THEN reset_all_jobs ELSE jobs
         /\ hist' = [hist EXCEPT !.reset_changed = reset /\ tracking /\ reset_all_jobs # jobs]
    /\ run' = [IdleRun EXCEPT !.tracking = tracking]
    /\ pc' = "started"
    /\ UNCHANGED <<pending, docs, loc, sc, dv, st, tb, rb>>

\* main without --reindex-resource: index_all_resources up to its loop
StartBatch ==
    /\ pc = "started"
    /\ \E mode \in Modes, loaded \in LoadResults, index \in IndexResults :
         LET list == loaded.list IN
         /\ run' = [run EXCEPT !.kind = "batch", !.mode = mode, !.list = list, !.idx = 1,
                               !.eligible = loaded.eligible]
         /\ pc' = IF list = <<>> THEN "done"
                  ELSE IF index = "raised" THEN "crashed"
                  ELSE "select"
         /\ hist' = [hist EXCEPT !.no_failed =
                        /\ mode = "retry" /\ run.tracking
                        /\ list # <<>> /\ index # "raised"
                        /\ \A r \in DOMAIN jobs : jobs[r].status # "failed"]
    /\ UNCHANGED <<jobs, pending, docs, loc, sc, dv, st, tb, rb>>

\* one iteration of the loop up to index_resource: get_or_create, the mode
\* filter, and the move to in_progress
SelectResource ==
    /\ pc = "select"
    /\ run.idx <= Len(run.list)
    /\ LET rid == run.list[run.idx]
           job == get_or_create(rid)
       IN
       IF run.tracking /\ ShouldSkip(run.mode, job)
       THEN /\ pending' = IF rid \in DOMAIN jobs THEN pending ELSE pending \cup {rid}
            /\ hist' = [hist EXCEPT !.skipped = @ \cup {rid}]
            /\ run' = [run EXCEPT !.idx = @ + 1]
            /\ UNCHANGED <<jobs, pc, loc>>
       ELSE /\ jobs' = IF run.tracking THEN Commit(rid, MarkStarted(run.mode, job)) ELSE jobs
            /\ pending' = IF run.tracking THEN {} ELSE pending
            /\ hist' = [hist EXCEPT !.processed = @ \cup {rid},
                                    !.prev_retry = IF run.tracking THEN job.retry_count ELSE 0,
                                    !.prev_status = IF run.tracking THEN job.status ELSE NoStatus]
            /\ run' = [run EXCEPT !.cur = rid]
            /\ loc' = IdleLoc
            /\ pc' = "discover"
    /\ UNCHANGED <<docs, sc, dv, st, tb, rb>>

\* the loop of index_all_resources is over
EndBatch ==
    /\ pc = "select"
    /\ run.idx > Len(run.list)
    /\ pc' = "done"
    /\ UNCHANGED <<jobs, pending, docs, run, loc, hist, sc, dv, st, tb, rb>>

\* main with --reindex-resource ID, up to index_resource
StartReindex ==
    /\ pc = "started"
    /\ \E rid \in AllResourceIds, loaded \in LoadResults, index \in IndexResults :
         LET list == loaded.list
             found == \E k \in 1..Len(list) : list[k] = rid
             raised == found /\ index = "raised"
             job == get_or_create(rid)
         IN
         /\ run' = [run EXCEPT !.kind = "reindex", !.list = list, !.idx = 1,
                               !.cur = IF found /\ ~raised THEN rid ELSE 0,
                               !.eligible = loaded.eligible, !.named = rid]
         /\ IF raised
            THEN /\ UNCHANGED <<jobs, hist>>
                 /\ pc' = "crashed"
            ELSE IF found
            THEN /\ jobs' = IF run.tracking THEN Commit(rid, MarkReindex(job)) ELSE jobs
                 /\ hist' = [hist EXCEPT !.processed = {rid},
                                         !.prev_retry = IF run.tracking THEN job.retry_count ELSE 0,
                                         !.prev_status = IF run.tracking THEN job.status ELSE NoStatus]
                 /\ pc' = "discover"
            ELSE /\ UNCHANGED <<jobs, hist>>
                 /\ pc' = "done"
    /\ UNCHANGED <<pending, docs, loc, sc, dv, st, tb, rb>>

\* index_resource: get_all_site_urls and the job's total_pages
Discover ==
    /\ pc = "discover"
    /\ \/ \E n \in SiteUrlCounts(run.cur, MaxPages) :
            /\ loc' = [loc EXCEPT !.total = n]
            /\ jobs' = IF run.tracking
                       THEN [jobs EXCEPT ![run.cur] = SetTotal(@, n)]
                       ELSE jobs
       \/ /\ loc' = [loc EXCEPT !.exc = DiscoveryExc]
          /\ UNCHANGED jobs
    /\ hist' = [hist EXCEPT !.prev_status = NoStatus]
    /\ pc' = "pages"
    /\ UNCHANGED <<pending, docs, run, sc, dv, st, tb, rb>>

\* one iteration of the page loop of index_resource
IndexPage_DropsStaleDocs ==
    /\ pc = "pages"
    /\ loc.exc = NoExc
    /\ loc.i < loc.total
    /\ \E scraped \in ScrapeResults, writeOk \in BOOLEAN :
         LET ok == index_single_page(scraped, writeOk)
             isWritten == scraped.kind = "dict" /\ writeOk
             count == IF ok THEN loc.success_count + 1 ELSE loc.success_count
         IN
         /\ docs' = IF isWritten
                    THEN {x \in docs : x[1] # run.cur \/ x[2] < loc.total}
                         \cup {doc_id(run.cur, loc.i)}
                    ELSE docs
         /\ loc' = [loc EXCEPT !.i = @ + 1, !.success_count = count,
                               !.written = IF isWritten THEN @ + 1 ELSE @,
                               !.fetched_ok = IF isWritten /\ scraped = PageResult
                                              THEN @ + 1 ELSE @,
                               !.write_failed = IF scraped.kind = "dict" /\ ~writeOk
                                                THEN @ + 1 ELSE @]
         /\ jobs' = IF ok /\ run.tracking
                    THEN [jobs EXCEPT ![run.cur] = SetProgress(@, count)]
                    ELSE jobs
    /\ UNCHANGED <<pending, pc, run, hist, sc, dv, st, tb, rb>>

IndexPage ==
    /\ pc = "pages"
    /\ loc.exc = NoExc
    /\ loc.i < loc.total
    /\ \E scraped \in ScrapeResults, writeOk \in BOOLEAN :
         LET ok == index_single_page(scraped, writeOk)
             isWritten == scraped.kind = "dict" /\ writeOk
             count == IF ok THEN loc.success_count + 1 ELSE loc.success_count
         IN
         /\ docs' = IF isWritten THEN docs \cup {doc_id(run.cur, loc.i)} ELSE docs
         /\ loc' = [loc EXCEPT !.i = @ + 1, !.success_count = count,
                               !.written = IF isWritten THEN @ + 1 ELSE @,
                               !.fetched_ok = IF isWritten /\ scraped = PageResult
                                              THEN @ + 1 ELSE @,
                               !.write_failed = IF scraped.kind = "dict" /\ ~writeOk
                                                THEN @ + 1 ELSE @]
         /\ jobs' = IF ok /\ run.tracking
                    THEN [jobs EXCEPT ![run.cur] = SetProgress(@, count)]
                    ELSE jobs
    /\ UNCHANGED <<pending, pc, run, hist, sc, dv, st, tb, rb>>

\* the return of index_resource and the try/except around the call: the
\* job's final status
RecordOutcome ==
    /\ pc = "pages"
    /\ loc.exc # NoExc \/ loc.i = loc.total
    /\ LET res == index_resource(loc) IN
       /\ loc' = [loc EXCEPT !.ret = IF res.ret THEN "True" ELSE "False"]
       /\ jobs' = IF ~run.tracking THEN jobs
                  ELSE IF res.raised # NoExc
                  THEN [jobs EXCEPT ![run.cur] = MarkFailed(@, res.raised)]
                  ELSE IF res.ret
                  THEN [jobs EXCEPT ![run.cur] = MarkCompleted(@)]
                  ELSE [jobs EXCEPT ![run.cur] = MarkFailed(@, ReturnedFalse)]
    /\ pc' = "finished"
    /\ UNCHANGED <<pending, docs, run, hist, sc, dv, st, tb, rb>>

\* time.sleep(DELAY_BETWEEN_SITES) and the next iteration; a single-resource
\* re-index returns
NextResource_StopOnFailure ==
    /\ pc = "finished"
    /\ IF run.kind = "batch" /\ loc.ret = "True"
       THEN /\ run' = [run EXCEPT !.idx = @ + 1, !.cur = 0]
            /\ pc' = "select"
       ELSE /\ run' = run
            /\ pc' = "done"
    /\ loc' = IdleLoc
    /\ UNCHANGED <<jobs, pending, docs, hist, sc, dv, st, tb, rb>>

NextResource ==
    /\ pc = "finished"
    /\ IF run.kind = "batch"
       THEN /\ run' = [run EXCEPT !.idx = @ + 1, !.cur = 0]
            /\ pc' = "select"
       ELSE /\ run' = run
            /\ pc' = "done"
    /\ loc' = IdleLoc
    /\ UNCHANGED <<jobs, pending, docs, hist, sc, dv, st, tb, rb>>

\* the process exits, with status 0 when main returns and with status 1 when
\* an exception leaves main; the session's uncommitted objects are dropped
Exit ==
    /\ pc \in {"done", "crashed"}
    /\ pc' = "idle"
    /\ run' = IdleRun
    /\ loc' = IdleLoc
    /\ hist' = IdleHist
    /\ pending' = {}
    /\ UNCHANGED <<jobs, docs, sc, dv, st, tb, rb>>

\* the process is killed mid-run
Kill ==
    /\ pc \in {"started", "select", "discover", "pages", "finished"}
    /\ pc' = "idle"
    /\ run' = IdleRun
    /\ loc' = IdleLoc
    /\ hist' = IdleHist
    /\ pending' = {}
    /\ UNCHANGED <<jobs, docs, sc, dv, st, tb, rb>>

\* the runs that use the Job Store
Next ==
    \/ Main(TRUE)
    \/ StartBatch
    \/ SelectResource
    \/ EndBatch
    \/ StartReindex
    \/ Discover
    \/ IndexPage
    \/ RecordOutcome
    \/ NextResource
    \/ Exit
    \/ Kill

Spec == Init /\ [][Next]_vars

\* the runs of Spec and the runs started with --no-tracking
NextAll ==
    \/ Next
    \/ Main(FALSE)

SpecAll == Init /\ [][NextAll]_vars

-----------------------------------------------------------------------------
(* the runs started with --no-tracking, over the Job Stores and indexes    *)
(* that earlier tracked runs leave                                         *)

\* the resources of the cards that have a website
WebsiteIds == {ResourceId(c) : c \in Cards \ NoWebsiteCards}

\* rows that tracked runs leave: a new row committed by a retry run, a row of
\* a run killed before discovery, a completed one-page crawl, and a one-page
\* crawl whose index write failed
StoredRows ==
    {[status |-> "pending", pages_indexed |-> 0, total_pages |-> 0,
      last_error |-> NULL, retry_count |-> 0],
     [status |-> "in_progress", pages_indexed |-> 0, total_pages |-> 0,
      last_error |-> NULL, retry_count |-> 0],
     [status |-> "completed", pages_indexed |-> 1, total_pages |-> 1,
      last_error |-> NULL, retry_count |-> 0],
     [status |-> "failed", pages_indexed |-> 0, total_pages |-> 1,
      last_error |-> ReturnedFalse, retry_count |-> 0]}

JobTables == UNION {[ids -> StoredRows] : ids \in SUBSET WebsiteIds}

\* the documents of the completed crawls of a table
StoredDocs(table) ==
    {doc_id(r, 0) : r \in {x \in DOMAIN table : table[x].status = "completed"}}

InitUntracked ==
    /\ jobs \in JobTables
    /\ pending = {}
    /\ docs = StoredDocs(jobs)
    /\ pc = "idle"
    /\ run = IdleRun
    /\ loc = IdleLoc
    /\ hist = IdleHist
    /\ sc = IdleSc
    /\ dv = IdleDv
    /\ st = IdleSt
    /\ tb = IdleTb
    /\ rb = IdleRb

NextUntracked ==
    \/ Main(FALSE)
    \/ StartBatch
    \/ SelectResource
    \/ EndBatch
    \/ StartReindex
    \/ Discover
    \/ IndexPage
    \/ RecordOutcome
    \/ NextResource
    \/ Exit
    \/ Kill

SpecUntracked == InitUntracked /\ [][NextUntracked]_vars

-----------------------------------------------------------------------------
(* scrape_url called once, for every robots answer and every sequence of   *)
(* fetch outcomes                                                          *)

InitScrape ==
    /\ jobs = <<>>
    /\ pending = {}
    /\ docs = {}
    /\ pc = "idle"
    /\ run = IdleRun
    /\ loc = IdleLoc
    /\ hist = IdleHist
    /\ sc \in {[IdleSc EXCEPT !.allowed = a, !.outs = o] : a \in BOOLEAN, o \in OutcomeSeqs}
    /\ dv = IdleDv
    /\ st = IdleSt
    /\ tb = IdleTb
    /\ rb = IdleRb

ScrapeCall ==
    /\ ~sc.called
    /\ LET r == scrape_url(sc.allowed, sc.outs) IN
       sc' = [sc EXCEPT !.called = TRUE, !.result = r.result, !.fetches = r.fetches,
                        !.slept = r.slept, !.raised = r.raised]
    /\ UNCHANGED <<jobs, pending, docs, pc, run, loc, hist, dv, st, tb, rb>>

NextScrape == ScrapeCall

SpecScrape == InitScrape /\ [][NextScrape]_vars

-----------------------------------------------------------------------------
(* get_all_site_urls called once, for every site and every max_pages       *)

InitDiscover ==
    /\ jobs = <<>>
    /\ pending = {}
    /\ docs = {}
    /\ pc = "idle"
    /\ run = IdleRun
    /\ loc = IdleLoc
    /\ hist = IdleHist
    /\ sc = IdleSc
    /\ dv \in {[IdleDv EXCEPT !.site = s, !.max_pages = m] : s \in Sites, m \in 1..MaxPages}
    /\ st = IdleSt
    /\ tb = IdleTb
    /\ rb = IdleRb

DiscoverCall ==
    /\ ~dv.called
    /\ \E r \in get_all_site_urls(dv.site, dv.max_pages) :
         dv' = [dv EXCEPT !.called = TRUE, !.result = r]
    /\ UNCHANGED <<jobs, pending, docs, pc, run, loc, hist, sc, st, tb, rb>>

NextDiscover == DiscoverCall

SpecDiscover == InitDiscover /\ [][NextDiscover]_vars

-----------------------------------------------------------------------------
(* parse_sitemap called once, for every sitemap of every site whose        *)
(* sitemaps are URL lists and indexes of one or two sitemaps               *)

\* the sitemaps that answer
NestedUrls == {"/sitemap.xml", "/sitemap_index.xml", DeclaredPath}

\* their bodies: a failed request, a list of at most two page URLs, an index
\* naming one or two sitemaps
NestedContents ==
    {GetError}
    \cup {[kind |-> "urlset", subs |-> <<>>, locs |-> s] : s \in UrlSeqs}
    \cup {[kind |-> "index", subs |-> s, locs |-> <<>>] :
            s \in [1..1 -> NestedUrls] \cup [1..2 -> NestedUrls]}

NestedSites ==
    {[NoSite EXCEPT !.body = [u \in SitemapUrls |->
                                IF u \in NestedUrls THEN b[u] ELSE GetError],
                    !.disallowed = d] :
        b \in [NestedUrls -> NestedContents],
        d \in {{}} \cup {{u} : u \in PageUrls}}

InitParse ==
    /\ jobs = <<>>
    /\ pending = {}
    /\ docs = {}
    /\ pc = "idle"
    /\ run = IdleRun
    /\ loc = IdleLoc
    /\ hist = IdleHist
    /\ sc = IdleSc
    /\ dv \in {[IdleDv EXCEPT !.site = s] : s \in NestedSites}
    /\ st = IdleSt
    /\ tb = IdleTb
    /\ rb = IdleRb

ParseCall ==
    /\ ~dv.called
    /\ \E u \in NestedUrls :
         dv' = [dv EXCEPT !.called = TRUE, !.sitemap = u,
                          !.result = parse_sitemap(dv.site, u, MaxDepth)]
    /\ UNCHANGED <<jobs, pending, docs, pc, run, loc, hist, sc, st, tb, rb>>

NextParse == ParseCall

SpecParse == InitParse /\ [][NextParse]_vars

-----------------------------------------------------------------------------
(* IndexingJob.get_or_create called by concurrent runs, each with its own  *)
(* session; a query sees the committed rows                                *)

InitStore ==
    /\ jobs = <<>>
    /\ pending = {}
    /\ docs = {}
    /\ pc = "idle"
    /\ run = IdleRun
    /\ loc = IdleLoc
    /\ hist = IdleHist
    /\ sc = IdleSc
    /\ dv = IdleDv
    /\ st = IdleSt
    /\ tb = IdleTb
    /\ rb = IdleRb

\* job = cls.query.filter_by(resource_id=resource_id).first()
GocQuery(p) ==
    /\ st.at[p] = "out"
    /\ \E rid \in AllResourceIds :
         st' = [st EXCEPT !.rid[p] = rid,
                          !.at[p] = IF st.rows[rid] > 0 THEN "found" ELSE "missing"]
    /\ UNCHANGED <<jobs, pending, docs, pc, run, loc, hist, sc, dv, tb, rb>>

\* if not job: job = cls(resource_id=resource_id); db.session.add(job)
GocAdd(p) ==
    /\ st.at[p] = "missing"
    /\ st' = [st EXCEPT !.at[p] = "added"]
    /\ UNCHANGED <<jobs, pending, docs, pc, run, loc, hist, sc, dv, tb, rb>>

\* get_or_create returns the row it found
GocReturn(p) ==
    /\ st.at[p] = "found"
    /\ st' = [st EXCEPT !.at[p] = "out", !.rid[p] = 0]
    /\ UNCHANGED <<jobs, pending, docs, pc, run, loc, hist, sc, dv, tb, rb>>

\* the caller's db_session.commit() inserts the new object: no constraint
\* of the table rejects a second row with the same resource_id
GocCommit(p) ==
    /\ st.at[p] = "added"
    /\ st' = [st EXCEPT !.rows[st.rid[p]] = @ + 1, !.at[p] = "out", !.rid[p] = 0]
    /\ UNCHANGED <<jobs, pending, docs, pc, run, loc, hist, sc, dv, tb, rb>>

\* the run ends before its commit: the new object is dropped
GocDrop(p) ==
    /\ st.at[p] = "added"
    /\ st' = [st EXCEPT !.at[p] = "out", !.rid[p] = 0]
    /\ UNCHANGED <<jobs, pending, docs, pc, run, loc, hist, sc, dv, tb, rb>>

NextStore ==
    \E p \in Runs :
        \/ GocQuery(p)
        \/ GocAdd(p)
        \/ GocReturn(p)
        \/ GocCommit(p)
        \/ GocDrop(p)

SpecStore == InitStore /\ [][NextStore]_vars

-----------------------------------------------------------------------------
(* TokenBlacklist *)

is_jti_blacklisted(jti) == jti \in DOMAIN tb.rows

\* the rows cleanup_expired_tokens selects: expires_at < now
ExpiredTokens_Inclusive == {j \in DOMAIN tb.rows : tb.rows[j] <= tb.now}

ExpiredTokens_All == DOMAIN tb.rows

ExpiredTokens == {j \in DOMAIN tb.rows : tb.rows[j] < tb.now}

InitBlacklist ==
    /\ jobs = <<>>
    /\ pending = {}
    /\ docs = {}
    /\ pc = "idle"
    /\ run = IdleRun
    /\ loc = IdleLoc
    /\ hist = IdleHist
    /\ sc = IdleSc
    /\ dv = IdleDv
    /\ st = IdleSt
    /\ tb = IdleTb
    /\ rb = IdleRb

\* add_token_to_blacklist(jti, token_type, user_id, expires_at); the commit
\* of a second row with the same jti raises IntegrityError (jti is unique)
AddToken ==
    /\ \E jti \in Jtis, expires_at \in Times :
         tb' = [tb EXCEPT
                  !.rows = IF is_jti_blacklisted(jti) THEN @
                           ELSE [j \in DOMAIN @ \cup {jti} |->
                                    IF j = jti THEN expires_at ELSE @[j]],
                  !.added = @ \cup {jti},
                  !.op = IF is_jti_blacklisted(jti) THEN "add_raised" ELSE "add",
                  !.ret = 0]
    /\ UNCHANGED <<jobs, pending, docs, pc, run, loc, hist, sc, dv, st, rb>>

\* cleanup_expired_tokens(): deletes the selected rows, returns their number
CleanupTokens ==
    /\ tb' = [tb EXCEPT
                 !.rows = [j \in DOMAIN @ \ ExpiredTokens |-> @[j]],
                 !.op = "cleanup",
                 !.ret = Cardinality(ExpiredTokens)]
    /\ UNCHANGED <<jobs, pending, docs, pc, run, loc, hist, sc, dv, st, rb>>

\* time passes
Tick ==
    /\ tb.now < MaxTime
    /\ tb' = [tb EXCEPT !.now = @ + 1, !.op = "tick", !.ret = 0]
    /\ UNCHANGED <<jobs, pending, docs, pc, run, loc, hist, sc, dv, st, rb>>

NextBlacklist ==
    \/ AddToken
    \/ CleanupTokens
    \/ Tick

SpecBlacklist == InitBlacklist /\ [][NextBlacklist]_vars

-----------------------------------------------------------------------------
(* get_robots_parser and is_url_allowed *)

\* what a request for /robots.txt gives: no connection or a timeout
\* (urlopen raises URLError), a not-found response, a 401/403 response, a
\* server error, a file that disallows /private, an empty file
RobotsAnswers == {"unreachable", "404", "403", "500", "rules", "empty"}

\* RobotFileParser.read(): raises when urlopen raises anything but HTTPError
ReadRaises(answer) == answer = "unreachable"

\* RobotFileParser.can_fetch for a parser read from the answer: 401/403 set
\* disallow_all, other 4xx set allow_all, a 5xx sets neither and leaves
\* last_checked at 0, for which can_fetch answers False
can_fetch(answer, path) ==
    CASE answer = "404" -> TRUE
      [] answer = "403" -> FALSE
      [] answer = "500" -> FALSE
      [] answer = "rules" -> path # "/private"
      [] answer = "empty" -> TRUE

\* get_robots_parser with cached the cache entry of the host, first and
\* second the answers to the requests it makes: the except branch builds a
\* second parser and reads again, and stores it only if that read returns
get_robots_parser(cached, first, second) ==
    IF cached # NoParser
    THEN [rp |-> cached, fetches |-> 0, raised |-> FALSE, cache |-> cached]
    ELSE IF ~ReadRaises(first)
    THEN [rp |-> first, fetches |-> 1, raised |-> FALSE, cache |-> first]
    ELSE IF ~ReadRaises(second)
    THEN [rp |-> second, fetches |-> 2, raised |-> FALSE, cache |-> second]
    ELSE [rp |-> NoParser, fetches |-> 2, raised |-> TRUE, cache |-> NoParser]

\* is_url_allowed: an exception of get_robots_parser gives True
IsUrlAllowed_DenyOnError(cached, path, first, second) ==
    LET got == get_robots_parser(cached, first, second) IN
    [result |-> IF got.raised THEN FALSE ELSE can_fetch(got.rp, path),
     basis |-> IF got.raised THEN second ELSE got.rp,
     fetches |-> got.fetches, cache |-> got.cache]

IsUrlAllowed(cached, path, first, second) ==
    LET got == get_robots_parser(cached, first, second) IN
    [result |-> IF got.raised THEN TRUE ELSE can_fetch(got.rp, path),
     basis |-> IF got.raised THEN second ELSE got.rp,
     fetches |-> got.fetches, cache |-> got.cache]

\* the distinct outcomes of a call for a cache entry and a path
AllowedResults(cached, path) ==
    {IsUrlAllowed(cached, path, first, second) :
        first \in RobotsAnswers, second \in RobotsAnswers}

InitRobots ==
    /\ jobs = <<>>
    /\ pending = {}
    /\ docs = {}
    /\ pc = "idle"
    /\ run = IdleRun
    /\ loc = IdleLoc
    /\ hist = IdleHist
    /\ sc = IdleSc
    /\ dv = IdleDv
    /\ st = IdleSt
    /\ tb = IdleTb
    /\ rb = IdleRb

\* one call of is_url_allowed(url)
AllowedCall ==
    /\ \E host \in Hosts, path \in Paths :
         /\ rb.calls[host] < MaxCalls
         /\ \E res \in AllowedResults(rb.cache[host], path) :
              rb' = [cache |-> [rb.cache EXCEPT ![host] = res.cache],
                     calls |-> [rb.calls EXCEPT ![host] = @ + 1],
                     last |-> [host |-> host, path |-> path, fetches |-> res.fetches,
                               basis |-> res.basis, result |-> res.result]]
    /\ UNCHANGED <<jobs, pending, docs, pc, run, loc, hist, sc, dv, st, tb>>

NextRobots == AllowedCall

SpecRobots == InitRobots /\ [][NextRobots]_vars

-----------------------------------------------------------------------------
(* Properties *)

DocsOf(d, rid) == {x \in d : x[1] = rid}

\* C1: in retry mode a failed job with retry_count = 3 is never taken (its
\* row and its documents stay as they are and its resource is not crawled);
\* a failed job with retry_count = 2 is taken, moved to in_progress with
\* retry_count = 3, and ends failed with retry_count = 3 when the attempt
\* fails again.
C1_RetryCap ==
    [][ (run.tracking /\ run.kind = "batch" /\ run.mode = "retry")
        => /\ \A r \in DOMAIN jobs :
                (jobs[r].status = "failed" /\ jobs[r].retry_count = 3)
                => /\ jobs'[r] = jobs[r]
                   /\ DocsOf(docs', r) = DocsOf(docs, r)
                   /\ ~(pc' \in {"discover", "pages", "finished"} /\ run'.cur = r)
           /\ (/\ pc = "select" /\ pc' # "idle"
               /\ run.idx <= Len(run.list)
               /\ run.list[run.idx] \in DOMAIN jobs
               /\ jobs[run.list[run.idx]].status = "failed"
               /\ jobs[run.list[run.idx]].retry_count = 2)
              => /\ pc' = "discover"
                 /\ run'.cur = run.list[run.idx]
                 /\ jobs'[run'.cur].status = "in_progress"
                 /\ jobs'[run'.cur].retry_count = 3
           /\ (pc = "pages" /\ pc' = "finished" /\ hist.prev_retry = 2 /\ loc'.ret = "False")
              => /\ jobs'[run.cur].status = "failed"
                 /\ jobs'[run.cur].retry_count = 3
      ]_vars

\* a retry run that skipped a failed job with retry_count = 3 and took a
\* failed job with retry_count = 2, which failed again
C1_Witness ==
    /\ pc = "finished" /\ run.tracking /\ run.mode = "retry"
    /\ hist.prev_retry = 2
    /\ jobs[run.cur].status = "failed" /\ jobs[run.cur].retry_count = 3
    /\ \E r \in hist.skipped :
         r \in DOMAIN jobs /\ jobs[r].status = "failed" /\ jobs[r].retry_count = 3

\* C2: in resume mode a completed job is never reprocessed: no step of the
\* run changes its row, writes a document of its resource or starts crawling
\* its resource.
C2_ResumeSkip ==
    [][ (run.tracking /\ run.kind = "batch" /\ run.mode = "resume")
        => \A r \in DOMAIN jobs :
             jobs[r].status = "completed"
             => /\ jobs'[r] = jobs[r]
                /\ DocsOf(docs', r) = DocsOf(docs, r)
                /\ ~(pc = "select" /\ pc' = "discover" /\ run'.cur = r)
      ]_vars

\* a resume run that skipped a completed job and processed another resource
C2_Witness ==
    /\ pc = "done" /\ run.tracking /\ run.mode = "resume"
    /\ hist.processed # {}
    /\ \E r \in hist.skipped : jobs[r].status = "completed"

\* C3: a job is completed only if at least one page of its resource was
\* indexed in the run that completed it: pages_indexed >= 1, the index holds
\* a document of the resource, and the run that has just completed it counted
\* at least one written page.
C3_CompletedHasPage ==
    /\ \A r \in DOMAIN jobs :
         jobs[r].status = "completed"
         => jobs[r].pages_indexed >= 1 /\ DocsOf(docs, r) # {}
    /\ (pc = "finished" /\ run.tracking /\ jobs[run.cur].status = "completed")
       => loc.written >= 1

C3_Witness ==
    /\ pc = "finished" /\ run.tracking
    /\ jobs[run.cur].status = "completed"
    /\ jobs[run.cur].pages_indexed < jobs[run.cur].total_pages

\* C4: pages_indexed never exceeds total_pages, in particular once
\* index_resource has set total_pages for the run.
C4_PagesWithinTotal ==
    /\ \A r \in DOMAIN jobs : jobs[r].pages_indexed <= jobs[r].total_pages
    /\ (pc = "pages" /\ run.tracking /\ loc.exc = NoExc)
       => /\ jobs[run.cur].total_pages = loc.total
          /\ jobs[run.cur].pages_indexed <= loc.i

\* every page of a site of at least two pages was indexed
C4_Witness ==
    /\ pc = "pages" /\ run.tracking /\ loc.exc = NoExc
    /\ loc.total >= 2 /\ loc.i = loc.total
    /\ jobs[run.cur].pages_indexed = jobs[run.cur].total_pages

RetryDecreases(r) ==
    r \in DOMAIN jobs /\ r \in DOMAIN jobs' /\ jobs'[r].retry_count < jobs[r].retry_count

FullResetStep == pc = "idle" /\ pc' = "started" /\ jobs' = reset_all_jobs

ReindexStartStep(r) ==
    /\ pc = "started" /\ pc' = "discover"
    /\ run'.kind = "reindex" /\ run'.cur = r
    /\ jobs'[r].retry_count = 0

\* C5 as stated: retry_count never decreases except through the full reset
\* of all jobs.
C5_OnlyResetDecreases ==
    [][ \A r \in AllResourceIds : RetryDecreases(r) => FullResetStep ]_vars

\* C5 amended: retry_count never decreases except through the full reset of
\* all jobs or the single-resource re-index of that job, and both set it to 0;
\* no job is ever deleted.
C5_ResetOrReindexDecreases ==
    [][ /\ DOMAIN jobs \subseteq DOMAIN jobs'
        /\ \A r \in AllResourceIds :
             RetryDecreases(r)
             => /\ FullResetStep \/ ReindexStartStep(r)
                /\ jobs'[r].retry_count = 0
      ]_vars

\* a single-resource re-index has taken a job that had been retried
C5_Witness ==
    /\ pc = "discover" /\ run.kind = "reindex" /\ run.tracking
    /\ hist.prev_retry > 0
    /\ jobs[run.cur].retry_count = 0

\* C6 as stated: with N pages discovered of which k >= 1 were fetched
\* successfully and indexed, the job ends completed with pages_indexed = k
\* and total_pages = N.
C6_CountsScrapedPages ==
    (pc = "finished" /\ run.tracking /\ loc.exc = NoExc /\ loc.fetched_ok >= 1)
    => /\ jobs[run.cur].status = "completed"
       /\ jobs[run.cur].pages_indexed = loc.fetched_ok
       /\ jobs[run.cur].total_pages = loc.total

\* C6 amended: with N pages discovered of which k >= 1 had their document
\* written, the job ends completed with pages_indexed = k and total_pages = N;
\* a page whose fetch failed on every attempt is written with empty content
\* and counted.
C6_CountsWrittenPages ==
    (pc = "finished" /\ run.tracking /\ loc.exc = NoExc /\ loc.written >= 1)
    => /\ jobs[run.cur].status = "completed"
       /\ jobs[run.cur].pages_indexed = loc.written
       /\ jobs[run.cur].total_pages = loc.total
       /\ Cardinality(DocsOf(docs, run.cur)) >= loc.written

\* some but not all of the pages were written, one of them after its fetch
\* had failed on every attempt
C6_Witness ==
    /\ pc = "finished" /\ run.tracking /\ loc.exc = NoExc
    /\ loc.total >= 2 /\ loc.written >= 1 /\ loc.written < loc.total
    /\ loc.fetched_ok < loc.written
    /\ jobs[run.cur].status = "completed"

\* C7: for a URL that robots.txt disallows, scrape_url makes no fetch and
\* returns a result whose content, title and description are empty.
C7_DisallowedGivesEmptyResult ==
    (sc.called /\ ~sc.allowed)
    => /\ sc.fetches = 0
       /\ sc.result.kind = "dict"
       /\ sc.result = EmptyResult

AllAttemptsFail(outs) == \A k \in 1..MAX_RETRIES : outs[k] # "ok"

\* C8: for every robots answer and every sequence of fetch outcomes,
\* scrape_url raises nothing and returns a result carrying content, title and
\* description, all empty when every attempt failed.
C8_AlwaysWellFormedResult ==
    sc.called
    => /\ ~sc.raised
       /\ sc.result.kind = "dict"
       /\ (sc.allowed /\ AllAttemptsFail(sc.outs)) => sc.result = EmptyResult

\* C9: a failure of one resource never ends the batch: the loop goes over the
\* whole list, each resource it has passed was processed to completed or
\* failed, or skipped by the rule of the mode.
C9_BatchContinues ==
    (run.kind = "batch" /\ pc \in {"select", "done"})
    => LET seen == {run.list[k] : k \in 1..(run.idx - 1)} IN
       /\ hist.processed \cup hist.skipped = seen
       /\ hist.processed \cap hist.skipped = {}
       /\ pc = "done" => run.idx = Len(run.list) + 1
       /\ run.tracking
          => /\ \A r \in hist.processed :
                  r \in DOMAIN jobs /\ jobs[r].status \in {"completed", "failed"}
             /\ \A r \in hist.skipped :
                  \/ run.mode = "resume" /\ jobs[r].status = "completed"
                  \/ run.mode = "retry" /\ r \notin DOMAIN jobs
                  \/ run.mode = "retry" /\ jobs[r].status # "failed"
                  \/ run.mode = "retry" /\ jobs[r].retry_count >= 3
       /\ ~run.tracking => hist.skipped = {}

\* the first resource of the list failed and the run went on to process the
\* second and to end
C9_Witness ==
    /\ pc = "done" /\ run.kind = "batch" /\ run.tracking
    /\ Len(run.list) >= 2
    /\ run.list[1] \in hist.processed /\ jobs[run.list[1]].status = "failed"
    /\ run.list[2] \in hist.processed

\* C10: when an exception is raised while a resource is processed, its job
\* ends failed with the text of that exception in last_error.
C10_LastErrorIsExceptionText ==
    (pc = "finished" /\ run.tracking /\ loc.exc # NoExc)
    => /\ jobs[run.cur].status = "failed"
       /\ jobs[run.cur].last_error = loc.exc

\* the sitemaps get_all_site_urls goes on to parse
Discovered(site) == Range(discover_sitemap_urls(site))

\* sitemaps were discovered and not one of them could be fetched and parsed
OnlyFailedSitemaps(site) ==
    /\ Discovered(site) # {}
    /\ \A u \in Discovered(site) : site.body[u].kind \in {"error", "malformed"}

\* C11: when the discovered sitemaps cannot be fetched or parsed,
\* get_all_site_urls still returns a usable crawl set, the homepage at least,
\* so that the resource does not fail for lack of pages.
C11_FailedSitemapStillCrawls ==
    (dv.called /\ OnlyFailedSitemaps(dv.site)) => dv.result # <<>>

\* C13: the list get_all_site_urls returns is never longer than max_pages.
C13_AtMostMaxPages ==
    dv.called => Len(dv.result) <= dv.max_pages

\* the sitemaps list more distinct allowed pages than max_pages and the list
\* was cut
C13_Witness ==
    /\ dv.called
    /\ Cardinality(Range(ParseAll(dv.site, discover_sitemap_urls(dv.site)))) > dv.max_pages
    /\ Len(dv.result) = dv.max_pages

\* no conventional path answers 200 and robots.txt names no sitemap
NoSitemapDiscoverable(site) ==
    /\ \A p \in CommonPaths : site.head[p] # "200"
    /\ site.robots.kind # "200" \/ site.robots.sitemaps = <<>>

PageIds(rid, n) == {<<rid, i>> : i \in 0..(n - 1)}

\* C12: a second run over the same pages of a resource leaves the index with
\* the same document ids: a resource whose job shows every one of its N pages
\* indexed has the ids of pages 0..N-1 in the index, and a run over N pages
\* writes no other id than these, each at most once (the index is keyed by id).
C12_RerunSameIds ==
    [][ /\ \A r \in DOMAIN jobs' :
             jobs'[r].pages_indexed = jobs'[r].total_pages
             => PageIds(r, jobs'[r].total_pages) \subseteq docs'
        /\ docs \subseteq docs'
        /\ (docs' \ docs) \subseteq
              (IF pc = "pages" THEN PageIds(run.cur, loc.total) ELSE {})
        /\ (pc = "pages" /\ PageIds(run.cur, loc.total) \subseteq docs)
           => docs' = docs
      ]_vars

\* a second run over a site of two pages has written page 0 again; the ids
\* are those the first run left
C12_Witness ==
    /\ pc = "pages" /\ run.tracking /\ loc.exc = NoExc
    /\ loc.total = 2 /\ loc.i = 1 /\ loc.written = 1
    /\ DocsOf(docs, run.cur) = PageIds(run.cur, 2)

\* a batch run in one of the given modes takes the next resource of its list
BatchTakeStep(modes) ==
    /\ pc = "select" /\ pc' = "discover"
    /\ run.tracking /\ run.kind = "batch" /\ run.mode \in modes

Restarted(r, status) ==
    /\ r \in DOMAIN jobs /\ jobs[r].status = status
    /\ jobs'[r].status = "in_progress"

\* C15 as stated: no job moves from failed to in_progress while its
\* retry_count is 3 or more, in any mode.
C15_CappedNeverRestarted ==
    [][ \A r \in AllResourceIds :
          ~(Restarted(r, "failed") /\ jobs[r].retry_count >= 3) ]_vars

\* C15 amended: a job that is failed with retry_count 3 or more is moved to
\* in_progress only by a full or resume batch run or by the single-resource
\* re-index of its resource, never by a retry run.
C15_CappedNotRestartedByRetry ==
    [][ \A r \in AllResourceIds :
          (Restarted(r, "failed") /\ jobs[r].retry_count >= 3)
          => \/ BatchTakeStep({"full", "resume"}) /\ run'.cur = r
             \/ ReindexStartStep(r)
      ]_vars

\* a full run has taken a job that was failed with retry_count 3
C15_Witness ==
    /\ pc = "discover" /\ run.tracking /\ run.kind = "batch" /\ run.mode = "full"
    /\ hist.prev_status = "failed" /\ hist.prev_retry = 3
    /\ jobs[run.cur].status = "in_progress"

\* C16 as stated: a completed job leaves completed only through the full
\* reset of all jobs.
C16_CompletedIsTerminal ==
    [][ \A r \in AllResourceIds :
          (r \in DOMAIN jobs /\ jobs[r].status = "completed"
           /\ jobs'[r].status # "completed")
          => FullResetStep ]_vars

\* C16 amended: a completed job leaves completed only through the full reset,
\* through a full batch run taking its resource, or through the
\* single-resource re-index of its resource; resume and retry runs leave it.
C16_CompletedLeftByResetFullReindex ==
    [][ \A r \in AllResourceIds :
          (r \in DOMAIN jobs /\ jobs[r].status = "completed"
           /\ jobs'[r].status # "completed")
          => \/ FullResetStep /\ jobs'[r].status = "pending"
             \/ BatchTakeStep({"full"}) /\ run'.cur = r /\ jobs'[r].status = "in_progress"
             \/ ReindexStartStep(r) /\ jobs'[r].status = "in_progress"
      ]_vars

\* a full run has taken a job that was completed
C16_Witness ==
    /\ pc = "discover" /\ run.tracking /\ run.kind = "batch" /\ run.mode = "full"
    /\ hist.prev_status = "completed"
    /\ jobs[run.cur].status = "in_progress"

KillStep == pc \notin {"idle", "done"} /\ pc' = "idle"

\* a batch run in one of the given modes leaves every job that a killed run
\* left in_progress: its row, its documents, and its resource is not crawled
LeavesInProgressJobs(modes) ==
    (run.tracking /\ run.kind = "batch" /\ run.mode \in modes)
    => \A r \in DOMAIN jobs :
         (jobs[r].status = "in_progress" /\ r # run.cur)
         => /\ jobs'[r] = jobs[r]
            /\ DocsOf(docs', r) = DocsOf(docs, r)
            /\ ~(pc' = "discover" /\ run'.cur = r)

\* C17 as stated: a kill leaves the job in_progress, and no later resume or
\* retry run picks that job up.
C17_KilledJobNeverPickedUp ==
    [][ /\ KillStep => jobs' = jobs
        /\ LeavesInProgressJobs({"resume", "retry"}) ]_vars

\* C17 amended: a kill leaves the job in_progress; no later retry run picks
\* that job up, and a resume run takes it like any job that is not completed.
C17_KilledJobLeftByRetryOnly ==
    [][ /\ KillStep => jobs' = jobs
        /\ LeavesInProgressJobs({"retry"})
        /\ (/\ run.tracking /\ run.kind = "batch" /\ run.mode = "resume"
            /\ pc = "select" /\ pc' # "idle"
            /\ run.idx <= Len(run.list)
            /\ run.list[run.idx] \in DOMAIN jobs
            /\ jobs[run.list[run.idx]].status = "in_progress")
           => /\ pc' = "discover"
              /\ run'.cur = run.list[run.idx]
      ]_vars

\* a retry run has passed a job that a killed run left in_progress
C17_Witness ==
    /\ pc = "done" /\ run.tracking /\ run.kind = "batch" /\ run.mode = "retry"
    /\ \E r \in hist.skipped : r \in DOMAIN jobs /\ jobs[r].status = "in_progress"

\* C18: a full run processes every catalog entry that has a non-empty
\* website_url, to completed or failed, whatever the other entries of the
\* response carry as website_url (missing, null or blank).
C18_FullRunProcessesEveryWebsite ==
    (pc = "done" /\ run.tracking /\ run.kind = "batch" /\ run.mode = "full")
    => \A r \in run.eligible :
         /\ r \in hist.processed
         /\ r \in DOMAIN jobs
         /\ jobs[r].status \in {"completed", "failed"}

\* C19: the index holds no document of a resource whose card has no
\* website_url, and there is no job, committed or pending in the session,
\* for such a resource.
C19_NoWebsiteNoDocNoJob ==
    \A c \in NoWebsiteCards :
        /\ DocsOf(docs, ResourceId(c)) = {}
        /\ ResourceId(c) \notin DOMAIN jobs
        /\ ResourceId(c) \notin pending

\* after a run that indexed the resources with a website, the re-index of a
\* resource without website was refused: it is not in the loaded list
C19_Witness ==
    /\ pc = "done" /\ run.kind = "reindex" /\ run.cur = 0
    /\ run.list # <<>>
    /\ docs # {} /\ DOMAIN jobs = run.eligible

\* C20: a failed index write of one page is caught: the page is not counted
\* (success_count and the job's row stay as they are, no document is written)
\* and the loop goes on to the next page; the pages are taken one by one in
\* order, each written under its own index, and the resource is not finished
\* before the last page.
C20_WriteFailureSkipsOnePage ==
    [][ /\ (pc = "pages" /\ loc'.write_failed = loc.write_failed + 1)
           => /\ pc' = "pages" /\ loc'.exc = NoExc
              /\ loc'.i = loc.i + 1
              /\ loc'.success_count = loc.success_count
              /\ jobs' = jobs
              /\ docs' = docs
        /\ (pc = "pages" /\ pc' = "pages" /\ loc' # loc)
           => /\ loc'.i = loc.i + 1
              /\ docs' \subseteq docs \cup {doc_id(run.cur, loc.i)}
        /\ (pc = "pages" /\ pc' = "finished" /\ loc.exc = NoExc)
           => loc.i = loc.total
      ]_vars

\* the write of page 0 failed, page 1 was scraped and written, and the job
\* counts one page
C20_Witness ==
    /\ pc = "finished" /\ run.tracking /\ loc.exc = NoExc
    /\ loc.total = 2 /\ loc.write_failed = 1 /\ loc.written = 1
    /\ doc_id(run.cur, 0) \notin docs /\ doc_id(run.cur, 1) \in docs
    /\ jobs[run.cur].pages_indexed = 1

\* C21 as stated: a batch run whose catalog load yields no resource ends
\* without having changed any job.
C21_EmptyCatalogChangesNoJob ==
    (pc = "done" /\ run.kind = "batch" /\ run.list = <<>>) => ~hist.reset_changed

\* C21 amended: a batch run whose catalog load yields no resource goes
\* straight to its end; from the load on it changes no job, adds no job to the
\* session and writes no document. Before the load, --reset may have reset
\* the rows, creating and deleting none.
C21_EmptyCatalogOnlyResets ==
    [][ /\ (pc = "idle" /\ pc' = "started")
           => /\ DOMAIN jobs' = DOMAIN jobs
              /\ jobs' = jobs \/ jobs' = reset_all_jobs
              /\ docs' = docs /\ pending' = pending
        /\ (pc = "started" /\ run'.kind = "batch" /\ run'.list = <<>>)
           => /\ pc' = "done"
              /\ jobs' = jobs /\ pending' = pending /\ docs' = docs
        /\ (pc = "done" /\ run.kind = "batch" /\ run.list = <<>>)
           => /\ pc' = "idle"
              /\ jobs' = jobs /\ docs' = docs
      ]_vars

\* a run given --reset has reset rows, loaded no resource and ended; the
\* documents of earlier runs are still there
C21_Witness ==
    /\ pc = "done" /\ run.kind = "batch" /\ run.list = <<>>
    /\ hist.reset_changed
    /\ docs # {} /\ jobs # <<>>

\* C22: a retry run leaves every job that is not failed as it is and does
\* not crawl its resource, a resource without job included (its new job, if
\* it is inserted at all, carries the column defaults); the job a retry run
\* takes was failed and gets retry_count + 1; full and resume runs leave
\* every retry_count as it is and insert new jobs with retry_count 0.
C22_RetryCountByMode ==
    [][ /\ (run.tracking /\ run.kind = "batch" /\ run.mode = "retry")
           => /\ \A r \in DOMAIN jobs :
                   (jobs[r].status # "failed" /\ r # run.cur)
                   => /\ jobs'[r] = jobs[r]
                      /\ ~(pc' = "discover" /\ run'.cur = r)
              /\ (pc = "select" /\ pc' = "discover")
                 => /\ run'.cur \in DOMAIN jobs
                    /\ jobs[run'.cur].status = "failed"
                    /\ jobs'[run'.cur].retry_count = jobs[run'.cur].retry_count + 1
              /\ \A r \in DOMAIN jobs' \ DOMAIN jobs : jobs'[r] = Inserted(NewJob)
        /\ (run.tracking /\ run.kind = "batch" /\ run.mode \in {"full", "resume"})
           => /\ \A r \in DOMAIN jobs : jobs'[r].retry_count = jobs[r].retry_count
              /\ \A r \in DOMAIN jobs' \ DOMAIN jobs : jobs'[r].retry_count = 0
      ]_vars

\* a retry run has passed a completed job and taken a failed one, whose
\* retry_count is one more than before
C22_Witness ==
    /\ pc = "discover" /\ run.tracking /\ run.kind = "batch" /\ run.mode = "retry"
    /\ jobs[run.cur].retry_count = hist.prev_retry + 1
    /\ \E r \in hist.skipped : r \in DOMAIN jobs /\ jobs[r].status = "completed"

AllPendingZero ==
    \A r \in DOMAIN jobs :
        /\ jobs[r].status = "pending"
        /\ jobs[r].pages_indexed = 0 /\ jobs[r].total_pages = 0
        /\ jobs[r].retry_count = 0

\* C23: the bulk reset leaves every existing job pending with pages_indexed,
\* total_pages and retry_count 0, deletes and creates no job, and happens in
\* main before the run has loaded the catalog or selected a resource: once
\* the reset of a run has acted, every job is as the reset leaves it until
\* the run takes its first resource.
C23_ResetAllBeforeRun ==
    /\ [][ (pc = "idle" /\ pc' = "started" /\ jobs' # jobs)
           => /\ DOMAIN jobs' = DOMAIN jobs
              /\ \A r \in DOMAIN jobs' :
                   /\ jobs'[r].status = "pending"
                   /\ jobs'[r].pages_indexed = 0 /\ jobs'[r].total_pages = 0
                   /\ jobs'[r].retry_count = 0
              /\ run'.kind = "none" /\ run'.list = <<>>
       ]_vars
    /\ [](hist.reset_changed /\ hist.processed = {} => AllPendingZero)

\* the reset of a resume run has changed rows and the run is about to
\* select its first resource
C23_Witness ==
    /\ pc = "select" /\ run.mode = "resume" /\ run.idx = 1
    /\ hist.reset_changed
    /\ jobs # <<>> /\ AllPendingZero

\* the job and the documents of resource r are the same after the step
Untouched(r) ==
    /\ r \in DOMAIN jobs <=> r \in DOMAIN jobs'
    /\ r \in DOMAIN jobs => jobs'[r] = jobs[r]
    /\ DocsOf(docs', r) = DocsOf(docs, r)

\* C24: the single-resource re-index takes the named resource whenever the
\* loaded catalog lists it, whatever its job's status and retry_count, moves
\* the job to in_progress with retry_count 0, ends with the job completed or
\* failed and retry_count 0, and no step of it touches the job or the
\* documents of another resource.
C24_ReindexExactlyNamed ==
    [][ /\ (pc = "started" /\ run'.kind = "reindex")
           => /\ \A r \in AllResourceIds \ {run'.named} : Untouched(r)
              /\ (run'.named \in Range(run'.list) /\ pc' # "crashed")
                 => /\ pc' = "discover" /\ run'.cur = run'.named
                    /\ run'.tracking
                       => /\ jobs'[run'.cur].status = "in_progress"
                          /\ jobs'[run'.cur].retry_count = 0
              /\ run'.named \notin Range(run'.list)
                 => pc' = "done" /\ Untouched(run'.named)
        /\ run.kind = "reindex"
           => /\ \A r \in AllResourceIds \ {run.cur} : Untouched(r)
              /\ pc' \in {"discover", "pages", "finished"} => run'.cur = run.named
              /\ pc' = "select" => FALSE
        /\ (run.kind = "reindex" /\ run.tracking /\ pc = "pages" /\ pc' = "finished")
           => /\ jobs'[run.cur].status \in {"completed", "failed"}
              /\ jobs'[run.cur].retry_count = 0
      ]_vars

\* the re-index of a resource whose job was at retry_count 3 has ended with
\* the job completed at retry_count 0; the failed job of another resource is
\* as it was
C24_Witness ==
    /\ pc = "finished" /\ run.kind = "reindex" /\ run.tracking
    /\ hist.prev_retry = 3
    /\ jobs[run.cur].status = "completed" /\ jobs[run.cur].retry_count = 0
    /\ \E r \in DOMAIN jobs : r # run.cur /\ jobs[r].status = "failed"

\* C25: no step of a run started with --no-tracking changes the Job Store,
\* the start with --reset included; such a batch run skips no resource and,
\* when its loop is over, has taken every resource of the loaded catalog,
\* whatever the mode and whatever the jobs say.
C25_NoTrackingLeavesJobs ==
    [][ /\ ((pc = "idle" /\ ~run'.tracking) \/ (pc # "idle" /\ ~run.tracking))
           => jobs' = jobs /\ pending' = pending
        /\ (~run.tracking /\ run.kind = "batch" /\ pc = "select")
           => /\ hist'.skipped = {}
              /\ pc' = "discover" => run'.cur = run.list[run.idx]
              /\ pc' = "done" => hist.processed = Range(run.list)
      ]_vars

\* a resume run without tracking is processing a resource whose job is
\* completed, and a retry run without tracking has processed a resource
\* whose job is pending
C25_Witness ==
    /\ ~run.tracking /\ run.kind = "batch" /\ pc = "finished"
    /\ run.cur \in DOMAIN jobs
    /\ \/ run.mode = "resume" /\ jobs[run.cur].status = "completed"
       \/ run.mode = "retry" /\ jobs[run.cur].status = "pending"

\* C26: a batch run never ends with an error: it reaches the end of its loop
\* and returns, whatever fails on the way.
C26_BatchNeverCrashes ==
    run.kind = "batch" => pc # "crashed"

\* C27: the table holds at most one row per resource_id, whatever runs call
\* get_or_create and commit, at the same time or one after the other.
C27_OneJobPerResource ==
    \A r \in AllResourceIds : st.rows[r] <= 1

\* C28: a jti given to add_token_to_blacklist is blacklisted after the call
\* and stays so over every step but a cleanup; cleanup_expired_tokens deletes
\* exactly the rows whose expires_at is before now, returns how many they
\* were and keeps every other row; only jtis that were added are blacklisted.
C28_BlacklistUntilCleanup ==
    [][ /\ tb'.op \in {"add", "add_raised"}
           => /\ tb'.added # {}
              /\ \E jti \in tb'.added :
                   /\ jti \in DOMAIN tb'.rows
                   /\ tb'.added = tb.added \cup {jti}
                   /\ tb.rows = [j \in DOMAIN tb'.rows \ {jti} |-> tb'.rows[j]]
                      \/ tb.rows = tb'.rows
        /\ tb'.op # "cleanup" => DOMAIN tb.rows \subseteq DOMAIN tb'.rows
        /\ tb'.op = "cleanup"
           => /\ DOMAIN tb'.rows = {j \in DOMAIN tb.rows : ~(tb.rows[j] < tb.now)}
              /\ \A j \in DOMAIN tb'.rows : tb'.rows[j] = tb.rows[j]
              /\ tb'.ret = Cardinality({j \in DOMAIN tb.rows : tb.rows[j] < tb.now})
        /\ DOMAIN tb'.rows \subseteq tb'.added
      ]_vars

\* a cleanup has just removed one expired row and kept a row that expires
\* now and a call for an expired jti had been made
C28_Witness ==
    /\ tb.op = "cleanup" /\ tb.ret = 1
    /\ \E j \in DOMAIN tb.rows : tb.rows[j] = tb.now
    /\ \E j \in tb.added : j \notin DOMAIN tb.rows

\* C29: while a job that a run has just moved to in_progress waits for
\* discovery, its pages_indexed and total_pages are 0.
C29_StartZeroesCounters ==
    (pc = "discover" /\ run.tracking)
    => /\ jobs[run.cur].status = "in_progress"
       /\ jobs[run.cur].pages_indexed = 0
       /\ jobs[run.cur].total_pages = 0

\* C30: at every point of the processing of a resource, the job's
\* pages_indexed is the number of index writes made so far for it in this
\* run.
C30_PagesIndexedCountsWrites ==
    (pc \in {"discover", "pages", "finished"} /\ run.tracking)
    => jobs[run.cur].pages_indexed = loc.written

\* the jobs this run has taken that are in_progress
RunInProgress ==
    {r \in hist.processed : r \in DOMAIN jobs /\ jobs[r].status = "in_progress"}

\* C31: a run works on one resource at a time: the only job in_progress on
\* its behalf is the current resource's, a step writes documents of the
\* current resource only, the pages of a resource are taken one by one in
\* list order, and the run moves to the next resource of the list only after
\* the current one is finished.
C31_OneResourceAtATime ==
    [][ /\ run'.tracking => RunInProgress' \subseteq {run'.cur}
        /\ docs' # docs
           => /\ pc = "pages" /\ pc' = "pages" /\ run'.cur = run.cur
              /\ docs' = docs \cup {doc_id(run.cur, loc.i)}
        /\ (pc = "pages" /\ pc' = "pages")
           => loc'.i = loc.i + 1 /\ loc.i < loc.total
        /\ (pc = "select" /\ pc' = "discover")
           => /\ run'.cur = run.list[run.idx]
              /\ \A k \in 1..(run.idx - 1) : run.list[k] \in hist.processed \cup hist.skipped
              /\ \A k \in run.idx..Len(run.list) : run.list[k] \notin hist.processed
        /\ (run.kind = "batch" /\ run'.kind = "batch" /\ run'.cur # run.cur)
           => \/ pc = "finished" /\ pc' = "select" /\ run'.idx = run.idx + 1
              \/ pc = "select" /\ pc' = "discover"
      ]_vars

\* the run is on the page of its second resource; the first resource is
\* completed and its two documents are written
C31_Witness ==
    /\ run.kind = "batch" /\ run.tracking /\ pc = "pages"
    /\ Cardinality(hist.processed) = 2
    /\ loc.i = 0 /\ loc.total = 1
    /\ RunInProgress = {run.cur}
    /\ \E r \in hist.processed \ {run.cur} :
         jobs[r].status = "completed" /\ Cardinality(DocsOf(docs, r)) = 2

\* the attempt that succeeds, 0 when none does
FirstOk(outs) ==
    IF AllAttemptsFail(outs) THEN 0
    ELSE CHOOSE k \in 1..MAX_RETRIES :
            outs[k] = "ok" /\ \A j \in 1..(k - 1) : outs[j] # "ok"

\* the fetch attempts scrape_url makes: up to the first success, all of them
\* when none succeeds
Attempts(outs) == IF FirstOk(outs) = 0 THEN MAX_RETRIES ELSE FirstOk(outs)

\* the attempts among them that fail
Failures(outs) == IF FirstOk(outs) = 0 THEN MAX_RETRIES ELSE FirstOk(outs) - 1

\* the waits of the specification: 1s, 2s, 4s
Waits == <<1, 2, 4>>

\* C32 as stated: for an allowed URL scrape_url makes 1 to MAX_RETRIES
\* attempts, stops at the first success, and waits after every failed
\* attempt: 1s, 2s, 4s for three failures.
C32_WaitAfterEveryFailure ==
    (sc.called /\ sc.allowed)
    => /\ sc.fetches \in 1..MAX_RETRIES
       /\ sc.fetches = Attempts(sc.outs)
       /\ sc.slept = SubSeq(Waits, 1, Failures(sc.outs))

\* C32: for an allowed URL scrape_url makes 1 to MAX_RETRIES attempts, stops
\* at the first success, and waits RETRY_BASE_DELAY^a after the failure of
\* attempt a only when another attempt follows: 1s and 2s for three
\* failures, and no wait after the last attempt.
C32_WaitBetweenAttempts ==
    (sc.called /\ sc.allowed)
    => /\ sc.fetches \in 1..MAX_RETRIES
       /\ sc.fetches = Attempts(sc.outs)
       /\ sc.slept = SubSeq(Waits, 1, sc.fetches - 1)
       /\ sc.result = IF FirstOk(sc.outs) = 0 THEN EmptyResult ELSE PageResult

\* three attempts failed: two waits, of 1s and 2s
C32_Witness ==
    /\ sc.called /\ sc.allowed /\ AllAttemptsFail(sc.outs)
    /\ sc.fetches = 3 /\ sc.slept = <<1, 2>>

\* C33: a call of is_url_allowed whose answer rests on a /robots.txt that
\* could not be reached or was not found returns True, whatever the URL.
C33_MissingRobotsAllowsAll ==
    (rb.last.host # 0 /\ rb.last.basis \in {"unreachable", "404"})
    => rb.last.result = TRUE

\* /private was allowed for a host whose /robots.txt could not be reached in
\* this call
C33_Witness ==
    /\ rb.last.host # 0 /\ rb.last.path = "/private"
    /\ rb.last.basis = "unreachable" /\ rb.last.fetches > 0
    /\ rb.last.result = TRUE

\* C34: only the first is_url_allowed call for a host requests its
\* /robots.txt; a later call for the host makes no request.
C34_OnlyFirstCallFetches ==
    (rb.last.host # 0 /\ rb.last.fetches > 0) => rb.calls[rb.last.host] = 1

\* the sitemaps that an index names, directly
SubsOf(site, u) == Range(site.body[u].subs)

\* the sitemaps reached from u through any number of indexes, u included
RECURSIVE Reached(_, _)
Reached(site, S) ==
    LET more == S \cup UNION {SubsOf(site, u) : u \in S} IN
    IF more = S THEN S ELSE Reached(site, more)

\* the page URLs of the URL lists among them
ListedUrls(site, u) == UNION {Range(site.body[v].locs) : v \in Reached(site, {u})}

C36_DocsOnlyGrow ==
    [][docs \subseteq docs']_vars

\* a crawl of a resource has ended with one page discovered while the index
\* holds the resource's document of page index 1 from an earlier crawl
C36_Witness ==
    /\ pc = "finished" /\ run.tracking
    /\ loc.total = 1 /\ jobs[run.cur].status = "completed"
    /\ jobs[run.cur].total_pages = 1
    /\ doc_id(run.cur, 0) \in docs
    /\ doc_id(run.cur, 1) \in docs

\* C37: the list get_all_site_urls returns is determined by the site: two
\* calls for the same site and limit return the same URLs in the same order.
C37_CrawlOrderDetermined ==
    dv.called => get_all_site_urls(dv.site, dv.max_pages) = {dv.result}

\* C38: a run that comes to its end, by returning or by an exception that
\* leaves main, has left no job it took in_progress: each is completed or
\* failed; and the step that ends the processing of a resource always
\* records one of the two.
C38_StartedJobsAreFinished ==
    /\ (pc \in {"done", "crashed"} /\ run.tracking)
       => \A r \in hist.processed :
            r \in DOMAIN jobs /\ jobs[r].status \in {"completed", "failed"}
    /\ (pc = "finished" /\ run.tracking)
       => jobs[run.cur].status \in {"completed", "failed"}

\* a batch run has ended after taking two resources, one now completed and
\* one failed
C38_Witness ==
    /\ pc = "done" /\ run.kind = "batch" /\ run.tracking
    /\ \E r \in hist.processed : jobs[r].status = "completed"
    /\ \E r \in hist.processed : jobs[r].status = "failed"

\* C39: a retry run that finds no failed job when its loop begins, because
\* --reset has just set every job to pending or because the resources have
\* no job yet, takes no resource: every resource is skipped, no job row and
\* no document changes; and a retry run whose --reset changed a row is such
\* a run.
C39_RetryAfterResetIsIdle ==
    [][ /\ hist'.no_failed
           => /\ hist'.processed = {}
              /\ pc' \in {"select", "done"}
              /\ hist.no_failed => (docs' = docs /\ jobs' = jobs)
              /\ pc' = "done" => hist'.skipped = Range(run'.list)
        /\ (pc = "started" /\ pc' = "select" /\ run'.mode = "retry" /\ hist.reset_changed)
           => hist'.no_failed
      ]_vars

\* a retry run started with --reset has ended: it skipped a resource whose
\* job was reset and a resource that had no job, and took none
C39_Witness ==
    /\ pc = "done" /\ run.kind = "batch" /\ run.mode = "retry"
    /\ hist.reset_changed /\ hist.no_failed
    /\ hist.processed = {}
    /\ \E r \in hist.skipped : r \in DOMAIN jobs
    /\ \E r \in hist.skipped : r \notin DOMAIN jobs

====
